---- MODULE Spec2Model ----
(***************************************************************************)
(* custom_function_call: the dispatch of an autograd.Function through the  *)
(* functorch transform-interpreter stack                                   *)
(* (torch/_functorch/autograd_function.py).                                *)
(*                                                                         *)
(* A call is executed in small steps over an explicit call stack (frames). *)
(* Tensors are objects of a heap, named by their index: equality of two    *)
(* indices is Python object identity (id(x) == id(y)).                     *)
(***************************************************************************)
EXTENDS Integers, Sequences, FiniteSets

VARIABLES
    interp,    \* the transform-interpreter stack, current interpreter last
    flag,      \* the single-level-node flag of enable_autograd_function()
    heap,      \* the tensor objects: raw tensors and their wrappers
    frames,    \* the call stack of the call in flight
    status,    \* "idle", "running", "raising", "done", "failed"
    ret,       \* the value returned by the frame that returned last
    err,       \* the error being raised
    log,       \* what happened, in order
    fn,        \* the function descriptor of the call
    pre,       \* the operands, the stack and the flag at the call
    nodes,     \* the single-level nodes that were built (autograd graph)
    diffs      \* the differentiations that ran

vars == <<interp, flag, heap, frames, status, ret, err, log, fn, pre, nodes, diffs>>

----------------------------------------------------------------------------
(* Bounds *)

MaxDepth == 2     \* active transform layers
MaxOps == 2       \* operands of a call
MaxOut == 2       \* leaves of a user function's output
MaxDiffs == 1     \* differentiations of a result

----------------------------------------------------------------------------
(* Values *)

\* a non-tensor leaf (not isinstance(x, torch.Tensor)); tensors are 1, 2, ...
NonTensor == 0

\* the batch-dimension marker None
NoneDim == -1

IsTensor(v) == v # NonTensor

Kinds == {"Grad", "Jvp", "Vmap", "Functionalize"}

\* the batch sizes a Vmap layer is entered with
BatchSizes == {2, 3}

\* the function descriptors: an autograd.Function with and without a vmap staticmethod
Descriptors ==
    { [name |-> "FnWithVmap", hasVmap |-> TRUE],
      [name |-> "FnNoVmap", hasVmap |-> FALSE] }

NoFn == [name |-> "", hasVmap |-> FALSE]

RawTensor == [wkind |-> "raw", level |-> 0, inner |-> 0, bdim |-> NoneDim]

GradWrapper(x, level) == [wkind |-> "grad", level |-> level, inner |-> x, bdim |-> NoneDim]

BatchedWrapper(x, bdim, level) == [wkind |-> "batched", level |-> level, inner |-> x, bdim |-> bdim]

NoErr == [type |-> "none", name |-> ""]

\* a log entry: what happened, at which depth of the interpreter stack, for which
\* level, with which operands (args) and which second sequence (aux: the unwrapped
\* operands, the in_dims, the outputs), and a number (a ctx, a batch size)
Ev(ev, depth, lvl, tag, args, aux, n) ==
    [ev |-> ev, depth |-> depth, lvl |-> lvl, tag |-> tag, args |-> args, aux |-> aux, n |-> n]

Range(s) == { s[i] : i \in DOMAIN s }

SeqsUpTo(S, n) == UNION { [1..k -> S] : k \in 0..n }

----------------------------------------------------------------------------
(* The wrap/unwrap collaborators *)

\* _unwrap_for_grad(x, level): the wrapped value if x is a grad wrapper of this level
UnwrapForGrad(h, x, level) ==
    IF h[x].wkind = "grad" /\ h[x].level = level THEN h[x].inner ELSE x

\* _unwrap_batched(x, level): (value, bdim) if x is batched at this level, else (x, None)
UnwrapBatchedTensor(h, x, level) ==
    IF h[x].wkind = "batched" /\ h[x].level = level
        THEN <<h[x].inner, h[x].bdim>>
        ELSE <<x, NoneDim>>

\* _wrap_for_grad(x, level): a new wrapper object around x
WrapForGrad(h, x, level) ==
    [heap |-> Append(h, GradWrapper(x, level)), obj |-> Len(h) + 1]

\* _add_batch_dim(x, bdim, level): a new batched wrapper object around x
AddBatchDim(h, x, bdim, level) ==
    [heap |-> Append(h, BatchedWrapper(x, bdim, level)), obj |-> Len(h) + 1]

----------------------------------------------------------------------------
(* The helpers of autograd_function.py *)

\* unwrap_batched(args, level): the unwrapped operands and their in_dims
unwrap_batched(h, args, level) ==
    IF Len(args) = 0
        THEN [out |-> args, dims |-> <<>>]
        ELSE [out |-> [i \in DOMAIN args |->
                          IF IsTensor(args[i])
                              THEN UnwrapBatchedTensor(h, args[i], level)[1]
                              ELSE args[i]],
              dims |-> [i \in DOMAIN args |->
                          IF IsTensor(args[i])
                              THEN UnwrapBatchedTensor(h, args[i], level)[2]
                              ELSE NoneDim]]

\* a slip in the test of the fast path: the dimensions are tested for being set
AllNone_AllSet(dims) == \A i \in DOMAIN dims : dims[i] # NoneDim

\* pytree.tree_all(lambda dim: dim is None, in_dims)
AllNone(dims) == \A i \in DOMAIN dims : dims[i] = NoneDim

\* the dict {id(unwrapped): orig for unwrapped, orig in zip(...)}: its keys
IdMapHas(unwrapped, orig, x) ==
    \E i \in DOMAIN unwrapped : i \in DOMAIN orig /\ unwrapped[i] = x

\* a slip in the dict comprehension: the first pair of the zip with the key is kept
IdMapGet_First(unwrapped, orig, x) ==
    LET hits == { i \in DOMAIN unwrapped : i \in DOMAIN orig /\ unwrapped[i] = x }
    IN  orig[CHOOSE i \in hits : \A j \in hits : i <= j]

\* the dict's value at a key: a later pair of the zip overwrites an earlier one
IdMapGet(unwrapped, orig, x) ==
    LET hits == { i \in DOMAIN unwrapped : i \in DOMAIN orig /\ unwrapped[i] = x }
    IN  orig[CHOOSE i \in hits : \A j \in hits : j <= i]

\* a slip in wrap_outputs_maintaining_identity: every tensor output is wrapped anew
WrapOutputLeaf_AlwaysWrapped(acc, output, unwrapped_inputs, orig_inputs, level) ==
    IF ~IsTensor(output)
        THEN [heap |-> acc.heap, result |-> Append(acc.result, output)]
        ELSE LET w == WrapForGrad(acc.heap, output, level)
             IN  [heap |-> w.heap, result |-> Append(acc.result, w.obj)]

\* a slip in wrap_outputs_maintaining_identity: the inputs are looked up by their
\* contents, not by id()
WrapOutputLeaf_ByValue(acc, output, unwrapped_inputs, orig_inputs, level) ==
    LET hits == { i \in DOMAIN unwrapped_inputs :
                    /\ i \in DOMAIN orig_inputs
                    /\ IsTensor(unwrapped_inputs[i])
                    /\ IsTensor(output)
                    /\ acc.heap[unwrapped_inputs[i]] = acc.heap[output] }
    IN  IF ~IsTensor(output)
            THEN [heap |-> acc.heap, result |-> Append(acc.result, output)]
        ELSE IF hits # {}
            THEN [heap |-> acc.heap,
                  result |-> Append(acc.result,
                                    orig_inputs[CHOOSE i \in hits : \A j \in hits : j <= i])]
        ELSE LET w == WrapForGrad(acc.heap, output, level)
             IN  [heap |-> w.heap, result |-> Append(acc.result, w.obj)]

\* one round of the loop of wrap_outputs_maintaining_identity
WrapOutputLeaf(acc, output, unwrapped_inputs, orig_inputs, level) ==
    IF ~IsTensor(output)
        THEN [heap |-> acc.heap, result |-> Append(acc.result, output)]
    ELSE IF IdMapHas(unwrapped_inputs, orig_inputs, output)
        THEN [heap |-> acc.heap,
              result |-> Append(acc.result, IdMapGet(unwrapped_inputs, orig_inputs, output))]
    ELSE LET w == WrapForGrad(acc.heap, output, level)
         IN  [heap |-> w.heap, result |-> Append(acc.result, w.obj)]

RECURSIVE WrapOutputsLoop(_, _, _, _, _, _)
WrapOutputsLoop(acc, outputs, k, unwrapped_inputs, orig_inputs, level) ==
    IF k > Len(outputs)
        THEN acc
        ELSE WrapOutputsLoop(
                 WrapOutputLeaf(acc, outputs[k], unwrapped_inputs, orig_inputs, level),
                 outputs, k + 1, unwrapped_inputs, orig_inputs, level)

\* wrap_outputs_maintaining_identity: the new heap and the result
wrap_outputs_maintaining_identity(h, outputs, unwrapped_inputs, orig_inputs, level) ==
    WrapOutputsLoop([heap |-> h, result |-> <<>>], outputs, 1,
                    unwrapped_inputs, orig_inputs, level)

\* a batch-dims descriptor: one dimension for the whole output, or one per leaf
OutDims(tree, d) == [tree |-> tree, d |-> d]

\* _broadcast_to_and_flatten(bdims, spec) for an output of n leaves; ok = FALSE is None
BroadcastToAndFlatten(bdims, n) ==
    IF bdims.tree = "leaf"
        THEN [ok |-> TRUE, dims |-> [i \in 1..n |-> bdims.d[1]]]
    ELSE IF Len(bdims.d) = n
        THEN [ok |-> TRUE, dims |-> bdims.d]
    ELSE [ok |-> FALSE, dims |-> <<>>]

\* one element of the list of _create_batched_inputs
CreateBatchedLeaf(acc, arg, dim, level) ==
    IF dim = NoneDim
        THEN [heap |-> acc.heap, result |-> Append(acc.result, arg), ok |-> acc.ok]
    ELSE IF ~IsTensor(arg)
        THEN [heap |-> acc.heap, result |-> acc.result, ok |-> FALSE]
    ELSE LET w == AddBatchDim(acc.heap, arg, dim, level)
         IN  [heap |-> w.heap, result |-> Append(acc.result, w.obj), ok |-> acc.ok]

RECURSIVE CreateBatchedLoop(_, _, _, _, _)
CreateBatchedLoop(acc, flat_bdims, flat_args, k, level) ==
    IF k > Len(flat_args) \/ ~acc.ok
        THEN acc
        ELSE CreateBatchedLoop(
                 CreateBatchedLeaf(acc, flat_args[k], flat_bdims[k], level),
                 flat_bdims, flat_args, k + 1, level)

\* a slip in wrap_batched: bdims that do not fit the outputs leave them unbatched
wrap_batched_NotAsserted(h, args, bdims, level) ==
    LET flat_bdims == BroadcastToAndFlatten(bdims, Len(args))
        made == CreateBatchedLoop([heap |-> h, result |-> <<>>, ok |-> TRUE],
                                  flat_bdims.dims, args, 1, level)
    IN  IF ~flat_bdims.ok
            THEN [heap |-> h, result |-> args, err |-> "none"]
        ELSE IF ~made.ok
            THEN [heap |-> h, result |-> <<>>, err |-> "TypeError"]
        ELSE [heap |-> made.heap, result |-> made.result, err |-> "none"]

\* wrap_batched(args, bdims, level): err = "AssertionError" when flat_bdims is None,
\* "TypeError" when a non-tensor leaf is given a batch dimension
wrap_batched(h, args, bdims, level) ==
    LET flat_bdims == BroadcastToAndFlatten(bdims, Len(args))
        made == CreateBatchedLoop([heap |-> h, result |-> <<>>, ok |-> TRUE],
                                  flat_bdims.dims, args, 1, level)
    IN  IF ~flat_bdims.ok
            THEN [heap |-> h, result |-> <<>>, err |-> "AssertionError"]
        ELSE IF ~made.ok
            THEN [heap |-> h, result |-> <<>>, err |-> "TypeError"]
        ELSE [heap |-> made.heap, result |-> made.result, err |-> "none"]

\* a slip in preserve_object_identity: the wrapped output is kept at every leaf
PreserveLeaf_NotRestored(output, unwrapped_output, inputs, unwrapped_inputs) == output

\* a slip in preserve_object_identity: the wrapped output is looked up among the inputs
PreserveLeaf_ByWrapped(output, unwrapped_output, inputs, unwrapped_inputs) ==
    IF ~IsTensor(output)
        THEN output
    ELSE IF IdMapHas(inputs, inputs, output)
        THEN IdMapGet(inputs, inputs, output)
    ELSE output

\* a slip in preserve_object_identity: an output that wrap_batched has wrapped is kept
PreserveLeaf_UnlessWrapped(output, unwrapped_output, inputs, unwrapped_inputs) ==
    IF ~IsTensor(output)
        THEN output
    ELSE IF output = unwrapped_output /\ IdMapHas(unwrapped_inputs, inputs, unwrapped_output)
        THEN IdMapGet(unwrapped_inputs, inputs, unwrapped_output)
    ELSE output

\* one round of the loop of preserve_object_identity
PreserveLeaf(output, unwrapped_output, inputs, unwrapped_inputs) ==
    IF ~IsTensor(output)
        THEN output
    ELSE IF IdMapHas(unwrapped_inputs, inputs, unwrapped_output)
        THEN IdMapGet(unwrapped_inputs, inputs, unwrapped_output)
    ELSE output

\* preserve_object_identity(outputs, inputs, unwrapped_outputs, unwrapped_inputs)
preserve_object_identity(outputs, inputs, unwrapped_outputs, unwrapped_inputs) ==
    [i \in 1..(IF Len(outputs) <= Len(unwrapped_outputs)
                   THEN Len(outputs) ELSE Len(unwrapped_outputs)) |->
        PreserveLeaf(outputs[i], unwrapped_outputs[i], inputs, unwrapped_inputs)]

----------------------------------------------------------------------------
(* The interpreter stack and the dispatch *)

\* torch._C._are_functorch_transforms_active()
TransformsActive(stack) == Len(stack) > 0

NoInterp == [kind |-> "none", level |-> 0, batch_size |-> 0]

\* the current interpreter: the top of the stack
CurrentInterpreter(stack) == IF Len(stack) = 0 THEN NoInterp ELSE stack[Len(stack)]

\* interpreter.lower(): pop the top of the stack for the duration of a scope
Lower(stack) ==
    IF Len(stack) = 0
        THEN [stack |-> stack, saved |-> <<>>]
        ELSE [stack |-> SubSeq(stack, 1, Len(stack) - 1), saved |-> <<stack[Len(stack)]>>]

\* leaving the scope of lower(): push what was popped
Restore(stack, saved) == stack \o saved

\* a slip in __call__: the check of the active transforms is left out
CustomFunctionPyOperatorCall_AlwaysDispatch(stack) == "dispatch"

\* CustomFunctionPyOperator.__call__: dispatch through functorch, or apply directly
CustomFunctionPyOperatorCall(stack) ==
    IF TransformsActive(stack) THEN "dispatch" ELSE "apply"

\* a slip in the registrations: the Jvp kind is given the Vmap rule
RuleTable_JvpAsVmap(kind) ==
    CASE kind = "Grad" -> "custom_function_call_grad"
      [] kind = "Jvp" -> "custom_function_call_vmap"
      [] kind = "Vmap" -> "custom_function_call_vmap"
      [] kind = "Functionalize" -> "custom_function_call_functionalize"
      [] OTHER -> "no_rule"

\* a slip in the registrations: the Functionalize kind is given the Grad rule
RuleTable_FunctionalizeAsGrad(kind) ==
    CASE kind = "Grad" -> "custom_function_call_grad"
      [] kind = "Jvp" -> "custom_function_call_grad"
      [] kind = "Vmap" -> "custom_function_call_vmap"
      [] kind = "Functionalize" -> "custom_function_call_grad"
      [] OTHER -> "no_rule"

\* the rules registered with custom_function_call.py_impl
RuleTable(kind) ==
    CASE kind = "Grad" -> "custom_function_call_grad"
      [] kind = "Jvp" -> "custom_function_call_grad"
      [] kind = "Vmap" -> "custom_function_call_vmap"
      [] kind = "Functionalize" -> "custom_function_call_functionalize"
      [] OTHER -> "no_rule"

\* a slip in Generated.forward: the interpreter is not lowered around the redispatch
GradForwardLower_NotLowered(stack) == [stack |-> stack, saved |-> <<>>]

\* Generated.forward: with ... maybe_interpreter.lower()
GradForwardLower(stack) == Lower(stack)

\* a slip in custom_function_call_vmap: the interpreter is popped, not lowered in a scope
VmapLower_NotScoped(stack) == [stack |-> Lower(stack).stack, saved |-> <<>>]

\* a slip in custom_function_call_vmap: the user's vmap runs with the interpreter current
VmapLower_NotLowered(stack) == [stack |-> stack, saved |-> <<>>]

\* custom_function_call_vmap: with interpreter.lower()
VmapLower(stack) == Lower(stack)

\* a slip in custom_function_call_vmap: the check for the vmap staticmethod is left out
HasVmap_NotChecked(f) == TRUE

\* a slip in custom_function_call_vmap: the check is made after the fast path, so
\* only when an operand is batched at the level
HasVmap_AfterFastPath(f) ==
    \/ f.hasVmap
    \/ AllNone(unwrap_batched(heap, frames[Len(frames)].ops, frames[Len(frames)].it.level).dims)

\* hasattr(autograd_function, "vmap")
HasVmap(f) == f.hasVmap

\* the RuntimeError of custom_function_call_vmap, which names the function
NoVmapRuleError(f) == [type |-> "RuntimeError: no vmap rule defined", name |-> f.name]

\* the RuntimeError of custom_function_call_functionalize
NYIError == [type |-> "RuntimeError: NYI Functionalize rule", name |-> ""]

\* an exception raised by the user's code
UserError == [type |-> "UserError", name |-> ""]

\* a slip in Generated.forward: the operands are passed on without being unwrapped
UnwrapOperands_NotUnwrapped(h, operands, level) == operands

\* the operands of Generated.forward, unwrapped at the level
UnwrapOperands(h, operands, level) ==
    [i \in DOMAIN operands |->
        IF IsTensor(operands[i]) THEN UnwrapForGrad(h, operands[i], level) ELSE operands[i]]

\* a frame of the call stack
Frame(pc, ops) ==
    [pc |-> pc, ops |-> ops, uops |-> <<>>, dims |-> <<>>, it |-> NoInterp,
     saved |-> <<>>, flagged |-> FALSE, prevFlag |-> FALSE, ctx |-> 0]

Top == frames[Len(frames)]

SetTop(f) == [frames EXCEPT ![Len(frames)] = f]

Pop == SubSeq(frames, 1, Len(frames) - 1)

Running == status = "running" /\ Len(frames) > 0

\* the status after the top frame has returned
AfterReturn == IF Len(frames) = 1 THEN "done" ELSE "running"

----------------------------------------------------------------------------
(* The user's code: what forward and vmap may return *)

\* the choice of a leaf that the user function computes anew
NewLeaf == 0 - 2

\* the leaves a user function may return given the operands it received
LeafChoices(ops) == {NonTensor, NewLeaf} \cup { ops[i] : i \in { j \in DOMAIN ops : IsTensor(ops[j]) } }

OutputChoices(ops) == UNION { [1..k -> LeafChoices(ops)] : k \in 1..MaxOut }

\* the number of leaves among the first k that are computed anew
RECURSIVE NewBefore(_, _)
NewBefore(choice, k) ==
    IF k = 0 THEN 0 ELSE NewBefore(choice, k - 1) + (IF choice[k] = NewLeaf THEN 1 ELSE 0)

\* the output of the user function: every new leaf is a new raw tensor
Materialize(h, choice) ==
    [heap |-> h \o [i \in 1..NewBefore(choice, Len(choice)) |-> RawTensor],
     out |-> [k \in DOMAIN choice |->
                 IF choice[k] = NewLeaf THEN Len(h) + NewBefore(choice, k) ELSE choice[k]]]

Dims == {NoneDim, 0}

OutDimsChoices ==
    { OutDims("leaf", <<d>>) : d \in Dims }
        \cup { OutDims("tuple", d) : d \in UNION { [1..k -> Dims] : k \in 1..MaxOut } }

----------------------------------------------------------------------------
(* The state machine *)

Init ==
    /\ interp = <<>>
    /\ flag = FALSE
    /\ heap = <<RawTensor>>
    /\ frames = <<>>
    /\ status = "idle"
    /\ ret = <<>>
    /\ err = NoErr
    /\ log = <<>>
    /\ fn = NoFn
    /\ pre = [ops |-> <<>>, interp |-> <<>>, flag |-> FALSE]
    /\ nodes = <<>>
    /\ diffs = <<>>

\* the wrapper that a transform layer of this kind puts around a tensor
LayerWrapper(kind, x, level) ==
    IF kind = "Vmap" THEN BatchedWrapper(x, 0, level) ELSE GradWrapper(x, level)

\* A transform is entered: its interpreter is pushed with the next level, and every
\* tensor there is may be passed on wrapped by the new layer.
EnterTransform(kind, bs) ==
    /\ status = "idle"
    /\ Len(interp) < MaxDepth
    /\ LET level == Len(interp) + 1
       IN  /\ interp' = Append(interp, [kind |-> kind, level |-> level, batch_size |-> bs])
           /\ heap' = IF kind = "Functionalize"
                          THEN heap
                          ELSE heap \o [i \in 1..Len(heap) |-> LayerWrapper(kind, i, level)]
    /\ UNCHANGED <<flag, frames, status, ret, err, log, fn, pre, nodes, diffs>>

\* custom_function_call(f, *A) is called
Call(f, A) ==
    /\ status = "idle"
    /\ fn' = f
    /\ pre' = [ops |-> A, interp |-> interp, flag |-> flag]
    /\ frames' = <<Frame("entry", A)>>
    /\ status' = "running"
    /\ log' = <<Ev("entry", Len(interp), 0, "", A, <<>>, 0)>>
    /\ UNCHANGED <<interp, flag, heap, ret, err, nodes, diffs>>

\* __call__ with no transform active: autograd_function.apply(*args[1:])
CallApply ==
    /\ Running
    /\ Top.pc = "entry"
    /\ CustomFunctionPyOperatorCall(interp) = "apply"
    /\ frames' = SetTop([Top EXCEPT !.pc = "apply"])
    /\ log' = Append(log, Ev("apply", Len(interp), 0, "", Top.ops, <<>>, 0))
    /\ UNCHANGED <<interp, flag, heap, status, ret, err, fn, pre, nodes, diffs>>

\* __call__ with a transform active: the rule of the current interpreter's kind is
\* invoked with (interpreter, autograd_function, *operands)
CallDispatch ==
    /\ Running
    /\ Top.pc = "entry"
    /\ CustomFunctionPyOperatorCall(interp) = "dispatch"
    /\ LET it == CurrentInterpreter(interp)
           rule == RuleTable(it.kind)
       IN  /\ frames' = SetTop([Top EXCEPT !.pc = rule, !.it = it])
           /\ log' = Append(log, Ev("rule", Len(interp), it.level, rule, Top.ops, <<>>, 0))
    /\ UNCHANGED <<interp, flag, heap, status, ret, err, fn, pre, nodes, diffs>>

\* autograd.Function.apply with no transform active: forward, then setup_context,
\* and the outputs of forward are the result
ApplyReturns(choice) ==
    /\ Running
    /\ Top.pc = "apply"
    /\ LET m == Materialize(heap, choice)
           ctx == Len(log) + 1
       IN  /\ heap' = m.heap
           /\ ret' = m.out
           /\ log' = log \o <<Ev("forward", Len(interp), 0, "", Top.ops, m.out, 0),
                              Ev("setup_context", Len(interp), 0, "", Top.ops, m.out, ctx),
                              Ev("return", Len(interp), 0, "apply", m.out, <<>>, 0)>>
    /\ frames' = Pop
    /\ status' = AfterReturn
    /\ UNCHANGED <<interp, flag, err, fn, pre, nodes, diffs>>

\* the user's forward raises
ApplyForwardRaises ==
    /\ Running
    /\ Top.pc = "apply"
    /\ log' = log \o <<Ev("forward", Len(interp), 0, "", Top.ops, <<>>, 0),
                       Ev("raise", Len(interp), 0, "forward", <<>>, <<>>, 0)>>
    /\ status' = "raising"
    /\ err' = UserError
    /\ UNCHANGED <<interp, flag, heap, frames, ret, fn, pre, nodes, diffs>>

\* the user's setup_context raises
ApplySetupContextRaises(choice) ==
    /\ Running
    /\ Top.pc = "apply"
    /\ LET m == Materialize(heap, choice)
           ctx == Len(log) + 1
       IN  /\ heap' = m.heap
           /\ log' = log \o <<Ev("forward", Len(interp), 0, "", Top.ops, m.out, 0),
                              Ev("setup_context", Len(interp), 0, "", Top.ops, m.out, ctx),
                              Ev("raise", Len(interp), 0, "setup_context", <<>>, <<>>, 0)>>
    /\ status' = "raising"
    /\ err' = UserError
    /\ UNCHANGED <<interp, flag, frames, ret, fn, pre, nodes, diffs>>

\* custom_function_call_grad up to the redispatch: under enable_autograd_function(),
\* Generated.apply runs Generated.forward, which unwraps the operands at the level,
\* lowers the interpreter and calls custom_function_call on the unwrapped operands
GradRule ==
    /\ Running
    /\ Top.pc = "custom_function_call_grad"
    /\ LET level == Top.it.level
           uops == UnwrapOperands(heap, Top.ops, level)
           low == GradForwardLower(interp)
       IN  /\ flag' = TRUE
           /\ interp' = low.stack
           /\ frames' = Append(SetTop([Top EXCEPT !.pc = "grad_wait", !.uops = uops,
                                                  !.saved = low.saved, !.flagged = TRUE,
                                                  !.prevFlag = flag, !.ctx = Len(log) + 1]),
                               Frame("entry", uops))
           /\ log' = log \o <<Ev("unwrap", Len(interp), level, "grad", Top.ops, uops, 0),
                              Ev("lower", Len(low.stack), level, "", <<>>, <<>>, 0),
                              Ev("entry", Len(low.stack), 0, "", uops, <<>>, 0)>>
    /\ UNCHANGED <<heap, status, ret, err, fn, pre, nodes, diffs>>

\* the redispatch of Generated.forward has returned: the scope of lower() is left, the
\* outputs are wrapped, Generated.setup_context delegates to the user's setup_context,
\* the flag is restored and the node's output is returned
GradReturns ==
    /\ Running
    /\ Top.pc = "grad_wait"
    /\ LET level == Top.it.level
           back == Restore(interp, Top.saved)
           w == wrap_outputs_maintaining_identity(heap, ret, Top.uops, Top.ops, level)
       IN  /\ interp' = back
           /\ heap' = w.heap
           /\ ret' = w.result
           /\ nodes' = Append(nodes, [kind |-> Top.it.kind, level |-> level, ctx |-> Top.ctx])
           /\ log' = log \o <<Ev("restore", Len(back), level, "", <<>>, <<>>, 0),
                              Ev("wrap", Len(back), level, "grad", ret, w.result, 0),
                              Ev("setup_context", Len(back), level, "", Top.ops, w.result, Top.ctx),
                              Ev("return", Len(back), level, "grad", w.result, <<>>, 0)>>
    /\ flag' = Top.prevFlag
    /\ frames' = Pop
    /\ status' = AfterReturn
    /\ UNCHANGED <<err, fn, pre, diffs>>

\* as GradReturns, but the user's setup_context raises
GradSetupContextRaises ==
    /\ Running
    /\ Top.pc = "grad_wait"
    /\ LET level == Top.it.level
           back == Restore(interp, Top.saved)
           w == wrap_outputs_maintaining_identity(heap, ret, Top.uops, Top.ops, level)
       IN  /\ interp' = back
           /\ heap' = w.heap
           /\ log' = log \o <<Ev("restore", Len(back), level, "", <<>>, <<>>, 0),
                              Ev("wrap", Len(back), level, "grad", ret, w.result, 0),
                              Ev("setup_context", Len(back), level, "", Top.ops, w.result, Top.ctx),
                              Ev("raise", Len(back), level, "setup_context", <<>>, <<>>, 0)>>
    /\ frames' = SetTop([Top EXCEPT !.saved = <<>>])
    /\ status' = "raising"
    /\ err' = UserError
    /\ UNCHANGED <<flag, ret, fn, pre, nodes, diffs>>

\* custom_function_call_vmap: the function has no vmap staticmethod
VmapNoRule ==
    /\ Running
    /\ Top.pc = "custom_function_call_vmap"
    /\ ~HasVmap(fn)
    /\ status' = "raising"
    /\ err' = NoVmapRuleError(fn)
    /\ log' = Append(log, Ev("raise", Len(interp), Top.it.level, "no_vmap_rule", <<>>, <<>>, 0))
    /\ UNCHANGED <<interp, flag, heap, frames, ret, fn, pre, nodes, diffs>>

\* custom_function_call_vmap, no operand batched at the current level: the level is
\* skipped, custom_function_call is called on the operands under the lowered interpreter
VmapFastPath ==
    /\ Running
    /\ Top.pc = "custom_function_call_vmap"
    /\ HasVmap(fn)
    /\ LET level == Top.it.level
           u == unwrap_batched(heap, Top.ops, level)
           low == VmapLower(interp)
       IN  /\ AllNone(u.dims)
           /\ interp' = low.stack
           /\ frames' = Append(SetTop([Top EXCEPT !.pc = "vmap_fast_wait", !.uops = u.out,
                                                  !.dims = u.dims, !.saved = low.saved]),
                               Frame("entry", Top.ops))
           /\ log' = log \o <<Ev("unwrap", Len(interp), level, "batched", Top.ops, u.out, 0),
                              Ev("lower", Len(low.stack), level, "", <<>>, <<>>, 0),
                              Ev("entry", Len(low.stack), 0, "", Top.ops, <<>>, 0)>>
    /\ UNCHANGED <<flag, heap, status, ret, err, fn, pre, nodes, diffs>>

\* the redispatch of the fast path has returned: its result is the rule's result
VmapFastReturns ==
    /\ Running
    /\ Top.pc = "vmap_fast_wait"
    /\ LET back == Restore(interp, Top.saved)
       IN  /\ interp' = back
           /\ log' = log \o <<Ev("restore", Len(back), Top.it.level, "", <<>>, <<>>, 0),
                              Ev("return", Len(back), Top.it.level, "vmap_fast", ret, <<>>, 0)>>
    /\ frames' = Pop
    /\ status' = AfterReturn
    /\ UNCHANGED <<flag, heap, ret, err, fn, pre, nodes, diffs>>

\* custom_function_call_vmap, some operand batched at the current level: the user's
\* vmap staticmethod is called on the unwrapped operands under the lowered interpreter
VmapGeneralPath ==
    /\ Running
    /\ Top.pc = "custom_function_call_vmap"
    /\ HasVmap(fn)
    /\ LET level == Top.it.level
           u == unwrap_batched(heap, Top.ops, level)
           low == VmapLower(interp)
       IN  /\ ~AllNone(u.dims)
           /\ interp' = low.stack
           /\ frames' = SetTop([Top EXCEPT !.pc = "vmap_user", !.uops = u.out,
                                           !.dims = u.dims, !.saved = low.saved])
           /\ log' = log \o <<Ev("unwrap", Len(interp), level, "batched", Top.ops, u.out, 0),
                              Ev("lower", Len(low.stack), level, "", <<>>, <<>>, 0),
                              Ev("vmap", Len(low.stack), level, "", u.out, u.dims,
                                 Top.it.batch_size)>>
    /\ UNCHANGED <<flag, heap, status, ret, err, fn, pre, nodes, diffs>>

\* the user's vmap has returned (unwrapped_output, out_dims): the scope of lower() is
\* left, the outputs are wrapped at the level and the aliases of operands are restored
VmapUserReturns(choice, out_dims) ==
    /\ Running
    /\ Top.pc = "vmap_user"
    /\ LET level == Top.it.level
           back == Restore(interp, Top.saved)
           m == Materialize(heap, choice)
           w == wrap_batched(m.heap, m.out, out_dims, level)
           result == preserve_object_identity(w.result, Top.ops, m.out, Top.uops)
       IN  /\ interp' = back
           /\ IF w.err = "none"
                  THEN /\ heap' = w.heap
                       /\ ret' = result
                       /\ frames' = Pop
                       /\ status' = AfterReturn
                       /\ err' = err
                       /\ log' = log \o
                            <<Ev("vmap_return", Len(interp), level, out_dims.tree, m.out, out_dims.d, 0),
                              Ev("restore", Len(back), level, "", <<>>, <<>>, 0),
                              Ev("wrap", Len(back), level, "batched", m.out, w.result, 0),
                              Ev("return", Len(back), level, "vmap_general", result, <<>>, 0)>>
                  ELSE /\ heap' = m.heap
                       /\ ret' = ret
                       /\ frames' = SetTop([Top EXCEPT !.saved = <<>>])
                       /\ status' = "raising"
                       /\ err' = [type |-> w.err, name |-> ""]
                       /\ log' = log \o
                            <<Ev("vmap_return", Len(interp), level, out_dims.tree, m.out, out_dims.d, 0),
                              Ev("restore", Len(back), level, "", <<>>, <<>>, 0),
                              Ev("raise", Len(back), level, "wrap_batched", <<>>, <<>>, 0)>>
    /\ UNCHANGED <<flag, fn, pre, nodes, diffs>>

\* the user's vmap raises
VmapUserRaises ==
    /\ Running
    /\ Top.pc = "vmap_user"
    /\ status' = "raising"
    /\ err' = UserError
    /\ log' = Append(log, Ev("raise", Len(interp), Top.it.level, "vmap", <<>>, <<>>, 0))
    /\ UNCHANGED <<interp, flag, heap, frames, ret, fn, pre, nodes, diffs>>

\* custom_function_call_functionalize
FunctionalizeRule ==
    /\ Running
    /\ Top.pc = "custom_function_call_functionalize"
    /\ status' = "raising"
    /\ err' = NYIError
    /\ log' = Append(log, Ev("raise", Len(interp), Top.it.level, "functionalize", <<>>, <<>>, 0))
    /\ UNCHANGED <<interp, flag, heap, frames, ret, fn, pre, nodes, diffs>>

\* the exception leaves a frame: the scopes the frame is in (lower(),
\* enable_autograd_function()) are left on the way
Unwind ==
    /\ status = "raising"
    /\ Len(frames) > 0
    /\ interp' = Restore(interp, Top.saved)
    /\ flag' = IF Top.flagged THEN Top.prevFlag ELSE flag
    /\ frames' = Pop
    /\ status' = IF Len(frames) = 1 THEN "failed" ELSE "raising"
    /\ log' = Append(log, Ev("unwind", Len(interp) + Len(Top.saved), Top.it.level, Top.pc,
                             <<>>, <<>>, 0))
    /\ UNCHANGED <<heap, ret, err, fn, pre, nodes, diffs>>

\* the callback of the single-level node that differentiation uses: backward is only
\* used if the transform is Grad, jvp only if it is Jvp
NodeCallback(kind) == IF kind = "Grad" THEN "backward" ELSE "jvp"

\* a slip in Generated.backward / Generated.jvp: the user's capability is called twice
GeneratedCallback_CalledTwice(kind, ctx, grads) ==
    <<[cb |-> NodeCallback(kind), ctx |-> ctx, grads |-> grads],
      [cb |-> NodeCallback(kind), ctx |-> ctx, grads |-> grads]>>

\* Generated.backward / Generated.jvp: the calls of the user's capability it makes
GeneratedCallback(kind, ctx, grads) ==
    <<[cb |-> NodeCallback(kind), ctx |-> ctx, grads |-> grads]>>

\* Generated.backward / Generated.jvp: return result
GeneratedReturn(result) == result

\* the values of gradients and tangents
GradVals == {<<1>>, <<2>>}

\* the log of the calls of the user's capability made by a callback of a node
CallbackLog(calls, result) ==
    [i \in DOMAIN calls |->
        Ev(calls[i].cb, Len(interp), 0, "", calls[i].grads, result, calls[i].ctx)]

\* The result is differentiated through a node: autograd calls the node's callback with
\* the node's ctx and the incoming gradients (tangents), and the user's result is returned
Differentiate(n, grads, result) ==
    /\ status = "done"
    /\ Len(diffs) < MaxDiffs
    /\ n \in DOMAIN nodes
    /\ LET calls == GeneratedCallback(nodes[n].kind, nodes[n].ctx, grads)
       IN  /\ log' = log \o CallbackLog(calls, result)
           /\ diffs' = Append(diffs, [node |-> n, kind |-> nodes[n].kind, ctx |-> nodes[n].ctx,
                                      grads |-> grads, userResult |-> result,
                                      result |-> GeneratedReturn(result),
                                      raised |-> FALSE, at |-> Len(log)])
    /\ UNCHANGED <<interp, flag, heap, frames, status, ret, err, fn, pre, nodes>>

\* as Differentiate, but the user's backward (jvp) raises
DifferentiateRaises(n, grads) ==
    /\ status = "done"
    /\ Len(diffs) < MaxDiffs
    /\ n \in DOMAIN nodes
    /\ LET calls == GeneratedCallback(nodes[n].kind, nodes[n].ctx, grads)
       IN  /\ log' = log \o CallbackLog(calls, <<>>)
                        \o <<Ev("raise", Len(interp), 0, NodeCallback(nodes[n].kind), <<>>, <<>>, 0)>>
           /\ diffs' = Append(diffs, [node |-> n, kind |-> nodes[n].kind, ctx |-> nodes[n].ctx,
                                      grads |-> grads, userResult |-> <<>>,
                                      result |-> <<>>, raised |-> TRUE, at |-> Len(log)])
    /\ UNCHANGED <<interp, flag, heap, frames, status, ret, err, fn, pre, nodes>>

\* the operands a call may be given: non-tensors and the tensors there are
OperandTuples == SeqsUpTo({NonTensor} \cup (1..Len(heap)), MaxOps)

Next ==
    \/ \E kind \in Kinds : \E bs \in (IF kind = "Vmap" THEN BatchSizes ELSE {0}) :
           EnterTransform(kind, bs)
    \/ \E f \in Descriptors : \E A \in OperandTuples : Call(f, A)
    \/ CallApply
    \/ CallDispatch
    \/ Running /\ \E choice \in OutputChoices(Top.ops) : ApplyReturns(choice)
    \/ ApplyForwardRaises
    \/ Running /\ \E choice \in OutputChoices(Top.ops) : ApplySetupContextRaises(choice)
    \/ GradRule
    \/ GradReturns
    \/ GradSetupContextRaises
    \/ VmapNoRule
    \/ VmapFastPath
    \/ VmapFastReturns
    \/ VmapGeneralPath
    \/ Running /\ \E choice \in OutputChoices(Top.uops) : \E out_dims \in OutDimsChoices :
                      VmapUserReturns(choice, out_dims)
    \/ VmapUserRaises
    \/ FunctionalizeRule
    \/ Unwind
    \/ \E n \in DOMAIN nodes : \E grads \in GradVals : \E result \in GradVals :
           Differentiate(n, grads, result)
    \/ \E n \in DOMAIN nodes : \E grads \in GradVals : DifferentiateRaises(n, grads)

Spec == Init /\ [][Next]_vars

----------------------------------------------------------------------------
(* Reading the log *)

Where(ev) == { i \in DOMAIN log : log[i].ev = ev }

UserEvents == {"forward", "setup_context", "vmap", "vmap_return", "backward", "jvp"}

Finished == status \in {"done", "failed"}

\* the interpreter that was current when log entry i was made at a depth > 0
InterpAt(i) == pre.interp[log[i].depth]

----------------------------------------------------------------------------
(* C1 *)

\* C1: No-transform passthrough. A call made with no transform active invokes the
\* function's apply exactly once, with exactly the operands of the call in their
\* order; it invokes no rule, unwraps, lowers and wraps nothing; and what it returns
\* is what apply returned.
C1_NoTransformPassthrough ==
    (status # "idle" /\ pre.interp = <<>>) =>
        /\ \A i \in DOMAIN log : log[i].ev \notin {"rule", "unwrap", "lower", "restore", "wrap"}
        /\ \A i \in Where("apply") : log[i].args = pre.ops /\ i = 2
        /\ Finished => Cardinality(Where("apply")) = 1
        /\ status = "done" =>
               /\ Cardinality(Where("return")) = 1
               /\ \A i \in Where("return") : log[i].tag = "apply" /\ ret = log[i].args
               /\ \A i \in Where("forward") : log[i].args = pre.ops /\ ret = log[i].aux

C1_Witness ==
    /\ status = "done"
    /\ pre.interp = <<>>
    /\ Len(pre.ops) = 2
    /\ pre.ops[1] # pre.ops[2]
    /\ Len(ret) = 2

----------------------------------------------------------------------------
(* C2 *)

\* C2: Rule selection. Whenever the entry point is invoked with a transform active, the
\* next thing that happens is the invocation of one rule, the one of the kind of the
\* interpreter on top of the stack (Grad and Jvp: custom_function_call_grad, Vmap:
\* custom_function_call_vmap, Functionalize: the stub), with that interpreter and the
\* operands of the invocation; and no rule is invoked in any other way.
C2_RuleSelection ==
    /\ \A i \in Where("entry") :
           (log[i].depth > 0 /\ i < Len(log)) =>
               /\ log[i + 1].ev = "rule"
               /\ log[i + 1].depth = log[i].depth
               /\ log[i + 1].args = log[i].args
               /\ log[i + 1].lvl = InterpAt(i).level
               /\ log[i + 1].tag =
                      (CASE InterpAt(i).kind \in {"Grad", "Jvp"} -> "custom_function_call_grad"
                         [] InterpAt(i).kind = "Vmap" -> "custom_function_call_vmap"
                         [] InterpAt(i).kind = "Functionalize" ->
                                "custom_function_call_functionalize")
    /\ \A i \in Where("rule") : i > 1 /\ log[i - 1].ev = "entry" /\ log[i].depth > 0
    /\ \A k \in DOMAIN frames :
           frames[k].pc \in {"custom_function_call_grad", "custom_function_call_vmap",
                             "custom_function_call_functionalize"} =>
               /\ k = Len(frames)
               /\ frames[k].it = interp[Len(interp)]
               /\ interp = SubSeq(pre.interp, 1, Len(interp))

C2_Witness ==
    /\ status = "done"
    /\ Len(pre.interp) = 2
    /\ pre.interp[1].kind = "Vmap"
    /\ pre.interp[2].kind = "Jvp"
    /\ Cardinality(Where("rule")) = 2
    /\ Len(pre.ops) = 2

----------------------------------------------------------------------------
(* C3 *)

\* the entries of the log about the layers, in order: the invocations of the entry point
\* and the returns with the depth of the stack they happen at, the rules, the unwraps
\* and the wraps with their level
RECURSIVE LayerTrace(_)
LayerTrace(n) ==
    IF n = 0 THEN <<>>
    ELSE IF log[n].ev \in {"entry", "return"}
        THEN Append(LayerTrace(n - 1), <<log[n].ev, log[n].depth>>)
    ELSE IF log[n].ev \in {"rule", "unwrap", "wrap"}
        THEN Append(LayerTrace(n - 1), <<log[n].ev, log[n].lvl>>)
    ELSE LayerTrace(n - 1)

IsPrefix(s, t) == Len(s) <= Len(t) /\ s = SubSeq(t, 1, Len(s))

\* a Grad layer (level 2) over a Vmap layer (level 1), the Vmap layer skipping its level
GradOverVmapFast ==
    << <<"entry", 2>>, <<"rule", 2>>, <<"unwrap", 2>>,
       <<"entry", 1>>, <<"rule", 1>>, <<"unwrap", 1>>,
       <<"entry", 0>>, <<"return", 0>>,
       <<"return", 1>>,
       <<"wrap", 2>>, <<"return", 2>> >>

\* a Grad layer (level 2) over a Vmap layer (level 1), the user's vmap being called
GradOverVmapGeneral ==
    << <<"entry", 2>>, <<"rule", 2>>, <<"unwrap", 2>>,
       <<"entry", 1>>, <<"rule", 1>>, <<"unwrap", 1>>,
       <<"wrap", 1>>, <<"return", 1>>,
       <<"wrap", 2>>, <<"return", 2>> >>

GradOverVmap ==
    /\ Len(pre.interp) = 2
    /\ pre.interp[2].kind = "Grad"
    /\ pre.interp[1].kind = "Vmap"

\* C3: Nested transform ordering. With a Grad layer current and a Vmap layer beneath
\* it, one call unwraps the Grad level, redispatches, and inside that redispatch unwraps
\* the Vmap level; the rules fire in stack order; the outputs are rewrapped in the
\* reverse order, the Vmap level (when it wraps at all) before the Grad level; a call
\* that returns has gone through the whole of one of the two sequences.
C3_NestedOrdering ==
    (GradOverVmap /\ status # "idle") =>
        /\ \/ IsPrefix(LayerTrace(Len(log)), GradOverVmapFast)
           \/ IsPrefix(LayerTrace(Len(log)), GradOverVmapGeneral)
        /\ status = "done" => LayerTrace(Len(log)) \in {GradOverVmapFast, GradOverVmapGeneral}

C3_Witness ==
    /\ GradOverVmap
    /\ status = "done"
    /\ LayerTrace(Len(log)) = GradOverVmapGeneral
    /\ \E i \in DOMAIN ret : IsTensor(ret[i]) /\ heap[ret[i]].wkind = "grad"
                                /\ heap[heap[ret[i]].inner].wkind = "batched"

----------------------------------------------------------------------------
(* C4 *)

OneGrad == Len(pre.interp) = 1 /\ pre.interp[1].kind = "Grad"

\* the operand a with exactly the wrapper of level L taken off, if it has one
WithoutLevel(a, L) ==
    IF ~IsTensor(a) THEN a
    ELSE IF heap[a].wkind = "grad" /\ heap[a].level = L THEN heap[a].inner
    ELSE a

\* C4: Single-level grad redispatch. With one Grad interpreter active at level L, a
\* call that returns has unwrapped exactly level L from every tensor operand and passed
\* the non-tensor operands through, has invoked the user's forward (once) and
\* setup_context on the unwrapped operands, and returns the outputs of forward where a
\* non-tensor leaf is unchanged, a tensor leaf that is one of the unwrapped operands is
\* an operand of the call, and every other tensor leaf is a new wrapper of level L
\* around the leaf.
C4_SingleLevelGrad ==
    (OneGrad /\ status = "done") =>
        LET L == pre.interp[1].level
            expected == [i \in DOMAIN pre.ops |-> WithoutLevel(pre.ops[i], L)]
        IN  /\ Cardinality(Where("unwrap")) = 1
            /\ \A i \in Where("unwrap") :
                   log[i].lvl = L /\ log[i].args = pre.ops /\ log[i].aux = expected
            /\ Cardinality(Where("forward")) = 1
            /\ \E i \in Where("setup_context") : log[i].args = expected /\ log[i].depth = 0
            /\ \A i \in Where("forward") :
                   /\ log[i].args = expected
                   /\ log[i].depth = 0
                   /\ Len(ret) = Len(log[i].aux)
                   /\ \A j \in DOMAIN ret :
                          LET out == log[i].aux[j]
                          IN  IF ~IsTensor(out) THEN ret[j] = out
                              ELSE IF out \in Range(expected) THEN ret[j] \in Range(pre.ops)
                              ELSE /\ heap[ret[j]] = GradWrapper(out, L)
                                   /\ ret[j] \notin Range(pre.ops)
                                   /\ \A k \in DOMAIN ret : k # j => ret[k] # ret[j]

C4_Witness ==
    /\ OneGrad
    /\ status = "done"
    /\ Len(pre.ops) = 2
    /\ IsTensor(pre.ops[1]) /\ heap[pre.ops[1]].wkind = "grad"
    /\ ~IsTensor(pre.ops[2])
    /\ Len(ret) = 2
    /\ IsTensor(ret[1]) /\ ret[1] \notin Range(pre.ops)
    /\ ret[2] = pre.ops[1]

----------------------------------------------------------------------------
(* C5 *)

\* C5: Backward delegation count. Every differentiation through a single-level node
\* invokes the user's capability exactly once: backward when the node's interpreter is of
\* kind Grad, jvp when it is of kind Jvp, with the ctx that the node's setup_context
\* gave to the user's setup_context and with the gradients (tangents) the node received;
\* and the node returns the user's result unchanged.
C5_BackwardDelegation ==
    /\ Cardinality(Where("backward") \cup Where("jvp")) = Len(diffs)
    /\ \A d \in DOMAIN diffs :
           LET i == diffs[d].at + 1
               node == nodes[diffs[d].node]
           IN  /\ i \in DOMAIN log
               /\ log[i].ev = (IF pre.interp[node.level].kind = "Grad" THEN "backward" ELSE "jvp")
               /\ pre.interp[node.level].kind \in {"Grad", "Jvp"}
               /\ log[i].args = diffs[d].grads
               /\ log[i].n = node.ctx
               /\ \E k \in Where("setup_context") :
                      log[k].n = log[i].n /\ log[k].lvl = node.level /\ k < i
               /\ \A k \in DOMAIN nodes : nodes[k].ctx = node.ctx => k = diffs[d].node
               /\ ~diffs[d].raised =>
                      diffs[d].result = log[i].aux /\ diffs[d].result = diffs[d].userResult

C5_Witness ==
    /\ OneGrad
    /\ Len(diffs) = 1
    /\ ~diffs[1].raised
    /\ diffs[1].result # diffs[1].grads
    /\ Cardinality(Where("backward")) = 1

----------------------------------------------------------------------------
(* C6 *)

OnlyGradLayers == \A k \in DOMAIN pre.interp : pre.interp[k].kind \in {"Grad", "Jvp"}

\* C6: Identity preservation under Grad. With 0, 1 or 2 Grad/Jvp layers active, if the
\* user's forward returns as an output leaf the very object it received as an operand,
\* the call returns at that leaf an operand of the call itself: the object the caller
\* passed at a position where forward received the returned object.
C6_IdentityGrad ==
    (OnlyGradLayers /\ status = "done") =>
        \A i \in Where("forward") :
            /\ Len(log[i].args) = Len(pre.ops)
            /\ Len(log[i].aux) = Len(ret)
            /\ \A j \in DOMAIN ret :
                   (IsTensor(log[i].aux[j]) /\ log[i].aux[j] \in Range(log[i].args)) =>
                       \E k \in DOMAIN pre.ops :
                           ret[j] = pre.ops[k] /\ log[i].args[k] = log[i].aux[j]

\* two layers deep: the operand is wrapped twice, forward returns the raw tensor it
\* received, and the caller gets its twice-wrapped operand back
C6_Witness ==
    /\ OnlyGradLayers
    /\ Len(pre.interp) = 2
    /\ status = "done"
    /\ Len(ret) = 1 /\ Len(pre.ops) = 1
    /\ ret[1] = pre.ops[1]
    /\ IsTensor(ret[1])
    /\ heap[ret[1]].wkind = "grad" /\ heap[ret[1]].level = 2
    /\ heap[heap[ret[1]].inner].wkind = "grad" /\ heap[heap[ret[1]].inner].level = 1
    /\ \E i \in Where("forward") : log[i].aux = <<heap[heap[ret[1]].inner].inner>>

----------------------------------------------------------------------------
(* C7 *)

\* C7: Identity preservation under Vmap. When the general path of the Vmap rule
\* returns, every output leaf at which the user's vmap returned the very object it
\* received as an unwrapped operand is an operand of the rule itself: the (wrapped)
\* object the rule was given at a position where the user's vmap received the returned
\* object.
C7_IdentityVmap ==
    \A k \in Where("return") :
        log[k].tag = "vmap_general" =>
            /\ k > 6
            /\ log[k - 6].ev = "unwrap" /\ log[k - 6].lvl = log[k].lvl
            /\ log[k - 4].ev = "vmap" /\ log[k - 4].args = log[k - 6].aux
            /\ log[k - 3].ev = "vmap_return"
            /\ Len(log[k].args) = Len(log[k - 3].args)
            /\ LET ops == log[k - 6].args
                   uops == log[k - 4].args
                   uout == log[k - 3].args
                   result == log[k].args
               IN  \A j \in DOMAIN uout :
                       (IsTensor(uout[j]) /\ uout[j] \in Range(uops)) =>
                           \E i \in DOMAIN ops : result[j] = ops[i] /\ uops[i] = uout[j]

\* the operand is batched at the level, the user's vmap returns the unwrapped operand
\* with a batch dimension, and the rule returns the batched operand it was given
C7_Witness ==
    \E k \in Where("return") :
        /\ log[k].tag = "vmap_general"
        /\ status = "done"
        /\ Len(log[k].args) = 1
        /\ log[k].args[1] = log[k - 6].args[1]
        /\ log[k - 3].args[1] = log[k - 4].args[1]
        /\ log[k - 3].args[1] # log[k - 6].args[1]
        /\ log[k - 3].aux = <<0>>
        /\ ret = log[k].args

----------------------------------------------------------------------------
(* C8 *)

\* the invocation of the entry point at log entry i is handled by a Vmap interpreter
VmapEntry(i) ==
    /\ log[i].ev = "entry"
    /\ log[i].depth > 0
    /\ InterpAt(i).kind = "Vmap"

\* no operand of the invocation at log entry i is batched at the level
NothingBatched(i, level) ==
    \A j \in DOMAIN log[i].args :
        IsTensor(log[i].args[j]) =>
            ~(heap[log[i].args[j]].wkind = "batched" /\ heap[log[i].args[j]].level = level)

\* C8: Vmap fast path. When the function has a vmap and no operand is batched at the
\* level L of the current Vmap interpreter, the rule does not invoke the user's vmap;
\* it invokes the entry point once, with the operands it was given, under the
\* next-outer interpreter; it wraps nothing at level L; and what it returns is what that
\* invocation returned.
C8_VmapFastPath ==
    \A i \in DOMAIN log :
        (VmapEntry(i) /\ HasVmap(fn) /\ NothingBatched(i, InterpAt(i).level)) =>
            LET L == InterpAt(i).level
            IN  /\ \A k \in Where("vmap") \cup Where("vmap_return") : log[k].lvl # L
                /\ \A k \in Where("wrap") : log[k].lvl # L
                /\ i + 4 <= Len(log) =>
                       /\ log[i + 1].ev = "rule"
                       /\ log[i + 2].ev = "unwrap"
                       /\ log[i + 3].ev = "lower" /\ log[i + 3].lvl = L
                       /\ log[i + 4].ev = "entry"
                       /\ log[i + 4].depth = log[i].depth - 1
                       /\ log[i + 4].args = log[i].args
                /\ Cardinality({ k \in Where("entry") : k > i /\ log[k].depth = log[i].depth - 1 }) <= 1
                /\ \A k \in Where("return") :
                       log[k].lvl = L =>
                           /\ log[k].tag = "vmap_fast"
                           /\ log[k - 1].ev = "restore"
                           /\ log[k - 2].ev = "return"
                           /\ log[k - 2].depth = log[i].depth - 1
                           /\ log[k].args = log[k - 2].args
                           /\ log[k].depth = log[i].depth
                /\ (status = "done" /\ i = 1) => \E k \in Where("return") : log[k].lvl = L

\* a Vmap layer over a Grad layer, the operand wrapped by the Grad layer only
C8_Witness ==
    /\ status = "done"
    /\ fn.hasVmap
    /\ Len(pre.interp) = 2
    /\ pre.interp[2].kind = "Vmap"
    /\ pre.interp[1].kind = "Grad"
    /\ Len(pre.ops) = 1
    /\ IsTensor(pre.ops[1])
    /\ heap[pre.ops[1]].wkind = "grad"
    /\ \E k \in Where("return") : log[k].tag = "vmap_fast" /\ ret = log[k].args
    /\ IsTensor(ret[1])

----------------------------------------------------------------------------
(* C9 *)

\* after log entry i the call has done nothing but raise and leave its frames
OnlyRaisedAfter(i) ==
    /\ i < Len(log) => log[i + 1].ev = "raise"
    /\ \A k \in DOMAIN log : k > i + 1 => log[k].ev = "unwind"

\* C9: Missing vmap capability. An invocation of the entry point under a current Vmap
\* interpreter with a function that has no vmap fails with the error that names the
\* function; between the invocation of the rule and the error no operand is unwrapped,
\* the interpreter is not lowered and no user code runs, and nothing but the unwinding
\* of the frames follows.
C9_MissingVmap ==
    \A i \in DOMAIN log :
        (VmapEntry(i) /\ ~fn.hasVmap) =>
            /\ i < Len(log) => log[i + 1].ev = "rule"
            /\ OnlyRaisedAfter(i + 1)
            /\ i + 1 < Len(log) =>
                   /\ status \in {"raising", "failed"}
                   /\ err.type = "RuntimeError: no vmap rule defined"
                   /\ err.name = fn.name
                   /\ err.name # ""
                   /\ log[i + 2].depth = log[i].depth
            /\ \A k \in DOMAIN log :
                   k > i => log[k].ev \notin (UserEvents \cup {"unwrap", "lower", "apply", "return"})
            /\ status # "done"

\* the error passes through the frame of a Grad layer above the Vmap layer
C9_Witness ==
    /\ status = "failed"
    /\ err = [type |-> "RuntimeError: no vmap rule defined", name |-> "FnNoVmap"]
    /\ Len(pre.interp) = 2
    /\ pre.interp[1].kind = "Vmap"
    /\ pre.interp[2].kind = "Grad"
    /\ \E j \in DOMAIN pre.ops : IsTensor(pre.ops[j]) /\ heap[pre.ops[j]].wkind = "batched"

----------------------------------------------------------------------------
(* C10 *)

FunctionalizeEntry(i) ==
    /\ log[i].ev = "entry"
    /\ log[i].depth > 0
    /\ InterpAt(i).kind = "Functionalize"

\* C10: Functionalize stub. An invocation of the entry point under a current
\* Functionalize interpreter invokes the stub, which raises its error; no user
\* capability is invoked and nothing is returned from then on; the interpreter stack is
\* not touched by the stub, and when the exception has left the invocation the stack is
\* what it was when the invocation was made.
C10_FunctionalizeStub ==
    \A i \in DOMAIN log :
        FunctionalizeEntry(i) =>
            /\ i < Len(log) =>
                   log[i + 1].ev = "rule" /\ log[i + 1].tag = "custom_function_call_functionalize"
            /\ OnlyRaisedAfter(i + 1)
            /\ i + 1 < Len(log) =>
                   /\ status \in {"raising", "failed"}
                   /\ err = NYIError
                   /\ log[i + 2].depth = log[i].depth
            /\ i + 2 < Len(log) =>
                   /\ log[i + 3].tag = "custom_function_call_functionalize"
                   /\ log[i + 3].depth = log[i].depth
            /\ i + 2 >= Len(log) => interp = SubSeq(pre.interp, 1, log[i].depth)
            /\ i + 3 = Len(log) => Len(frames) = Cardinality({ k \in Where("entry") : k < i })
            /\ \A k \in DOMAIN log : k > i => log[k].ev \notin (UserEvents \cup {"apply", "return"})
            /\ status # "done"
            /\ status = "failed" => interp = pre.interp

\* the stub is reached by the redispatch of a Grad layer above the Functionalize layer
C10_Witness ==
    /\ status = "failed"
    /\ err = NYIError
    /\ Len(pre.interp) = 2
    /\ pre.interp[1].kind = "Functionalize"
    /\ pre.interp[2].kind = "Grad"
    /\ Len(pre.ops) = 2
    /\ interp = pre.interp

----------------------------------------------------------------------------
(* C11 *)

\* the frames below frame k that are inside enable_autograd_function()
FlaggedBelow(k) == { j \in 1..(k - 1) : frames[j].flagged }

\* the frames that are inside a scope of lower()
Lowered == { k \in DOMAIN frames : Len(frames[k].saved) > 0 }

\* C11: Scoped restoration on every exit path. At every point of a call the interpreter
\* stack is the stack of the call less one interpreter for every frame that is inside a
\* scope of lower(), and the flag is set by the frames inside enable_autograd_function()
\* only, each of which holds the value to restore; so when a call has ended, by
\* returning or by any error (no vmap, the Functionalize stub, the user's forward,
\* setup_context or vmap raising, out_dims that do not fit, a failure inside a
\* redispatch), and after a differentiation that returned or raised, the stack and the
\* flag are what they were before the call.
C11_ScopedRestoration ==
    status # "idle" =>
        /\ Len(interp) + Cardinality(Lowered) = Len(pre.interp)
        /\ interp = SubSeq(pre.interp, 1, Len(interp))
        /\ \A k \in Lowered : frames[k].saved = <<frames[k].it>>
        /\ \A k \in DOMAIN frames :
               frames[k].flagged =>
                   frames[k].prevFlag = (IF FlaggedBelow(k) = {} THEN pre.flag ELSE TRUE)
        /\ flag = (IF FlaggedBelow(Len(frames) + 1) = {} THEN pre.flag ELSE TRUE)
        /\ Finished => (frames = <<>> /\ interp = pre.interp /\ flag = pre.flag)

\* the user's forward raises under two layers, a Grad layer inside its flag's scope
C11_Witness ==
    /\ status = "failed"
    /\ err = UserError
    /\ Len(pre.interp) = 2
    /\ pre.interp[2].kind = "Vmap"
    /\ pre.interp[1].kind = "Grad"
    /\ \E i \in Where("raise") : log[i].tag = "forward"
    /\ interp = pre.interp
    /\ flag = pre.flag

----------------------------------------------------------------------------
(* C12 *)

\* the levels of the wrappers of a tensor, outermost first
RECURSIVE WrapLevels(_)
WrapLevels(x) ==
    IF heap[x].wkind = "raw" THEN <<>> ELSE <<heap[x].level>> \o WrapLevels(heap[x].inner)

\* a tensor as an operand under a stack of depth d: no wrapper of a level above d, and
\* a wrapper of level d, if any, only once and outermost
OperandLevelsOk(x, d) ==
    LET lv == WrapLevels(x)
    IN  \A k \in DOMAIN lv : lv[k] <= d /\ (lv[k] = d => k = 1)

\* C12: Operand-level invariant. At every invocation of the entry point, the call's own
\* and the redispatched ones, every tensor operand carries the level of the current
\* interpreter at most once and only as its outermost wrapper, and carries no wrapper of
\* a level that has been lowered past (so at depth 0 the operands are unwrapped); a rule
\* takes off wrappers of its own level only, the levels below are reached by the
\* redispatch.
C12_OperandLevels ==
    /\ \A i \in Where("entry") :
           \A j \in DOMAIN log[i].args :
               IsTensor(log[i].args[j]) => OperandLevelsOk(log[i].args[j], log[i].depth)
    /\ \A i \in Where("unwrap") :
           /\ Len(log[i].aux) = Len(log[i].args)
           /\ \A j \in DOMAIN log[i].args :
                  \/ log[i].aux[j] = log[i].args[j]
                  \/ /\ IsTensor(log[i].args[j])
                     /\ heap[log[i].args[j]].level = log[i].lvl
                     /\ heap[log[i].args[j]].inner = log[i].aux[j]
                     /\ log[i].lvl = log[i].depth

\* an operand wrapped at both levels reaches the redispatch with its level-1 wrapper
\* outermost, and apply with none
C12_Witness ==
    /\ status = "done"
    /\ Len(pre.interp) = 2
    /\ \E i \in Where("entry") :
           /\ i > 1
           /\ log[i].depth = 1
           /\ Len(log[i].args) = 2
           /\ IsTensor(log[i].args[1])
           /\ WrapLevels(log[i].args[1]) = <<1>>
           /\ IsTensor(pre.ops[1])
           /\ WrapLevels(pre.ops[1]) = <<2, 1>>
    /\ \E i \in Where("entry") : log[i].depth = 0 /\ WrapLevels(log[i].args[1]) = <<>>

----------------------------------------------------------------------------
(* C13 *)

\* the execution of the call is one Python call stack: a step that can be taken is taken
FairSpec == Spec /\ WF_vars(Next)

\* some wrapper of the tensor, at any level, is a batched one
RECURSIVE AnyBatched(_)
AnyBatched(x) ==
    /\ heap[x].wkind # "raw"
    /\ (heap[x].wkind = "batched" \/ AnyBatched(heap[x].inner))

\* a call under Grad, Jvp and Vmap layers only, whose Vmap layers all skip their level:
\* the function has a vmap rule and no operand is batched at any level
FastStack ==
    /\ status # "idle"
    /\ \A k \in DOMAIN pre.interp : pre.interp[k].kind \in {"Grad", "Jvp", "Vmap"}
    /\ (\E k \in DOMAIN pre.interp : pre.interp[k].kind = "Vmap") => HasVmap(fn)
    /\ \A j \in DOMAIN pre.ops : IsTensor(pre.ops[j]) => ~AnyBatched(pre.ops[j])

RulesUpTo(i) == {j \in Where("rule") : j <= i}

C13_Layering ==
    FastStack =>
        LET n == Len(pre.interp)
        IN  /\ \A i \in Where("rule") :
                   /\ log[i].depth = n + 1 - Cardinality(RulesUpTo(i))
                   /\ log[i].depth \in 1..n
                   /\ log[i].lvl = log[i].depth
                   /\ log[i].tag = RuleTable(pre.interp[log[i].depth].kind)
            /\ \A i \in Where("apply") :
                   /\ log[i].depth = 0
                   /\ Cardinality(RulesUpTo(i)) = n
            /\ Cardinality(Where("apply")) <= 1
            /\ Where("vmap") = {}
            /\ Finished => (Cardinality(Where("rule")) = n /\ Cardinality(Where("apply")) = 1)

\* C13: Termination and exactly-once layering. Under n active interpreters of kinds
\* Grad, Jvp or Vmap, every Vmap layer taking the fast path, a call to the entry point
\* terminates; it invokes a dispatch rule exactly n times, the k-th for the k-th layer
\* from the top of the stack and at stack depth n + 1 - k; and it invokes the
\* function's apply exactly once, after the n rules, with no transform active.
C13_ExactlyOnceLayering == [](C13_Layering) /\ (FastStack ~> Finished)

C13_Witness ==
    /\ FastStack
    /\ status = "done"
    /\ Len(pre.interp) = 2
    /\ pre.interp[1].kind = "Vmap"
    /\ pre.interp[2].kind = "Grad"
    /\ Cardinality(Where("rule")) = 2
    /\ Cardinality(Where("apply")) = 1
    /\ \E j \in DOMAIN pre.ops : IsTensor(pre.ops[j]) /\ WrapLevels(pre.ops[j]) = <<2>>

----------------------------------------------------------------------------
(* C14 *)

\* operand x is batched at the level
BatchedAt(x, level) == IsTensor(x) /\ heap[x].wkind = "batched" /\ heap[x].level = level

\* the log from entry i on is the general path of the Vmap rule up to the call of the
\* user's vmap: rule, unwrap, lower, vmap
GeneralPathCall(i, L) ==
    /\ log[i + 1].ev = "rule" /\ log[i + 1].tag = "custom_function_call_vmap"
    /\ log[i + 2].ev = "unwrap" /\ log[i + 2].args = log[i].args
    /\ log[i + 3].ev = "lower" /\ log[i + 3].lvl = L /\ log[i + 3].depth = L - 1
    /\ log[i + 4].ev = "vmap"
    /\ log[i + 4].depth = L - 1
    /\ log[i + 4].n = InterpAt(i).batch_size
    /\ Len(log[i + 4].args) = Len(log[i].args)
    /\ Len(log[i + 4].aux) = Len(log[i].args)
    /\ \A j \in DOMAIN log[i].args :
           IF BatchedAt(log[i].args[j], L)
               THEN /\ log[i + 4].args[j] = heap[log[i].args[j]].inner
                    /\ log[i + 4].aux[j] = heap[log[i].args[j]].bdim
               ELSE /\ log[i + 4].args[j] = log[i].args[j]
                    /\ log[i + 4].aux[j] = NoneDim

\* the wrap at log entry k wraps, at level L, what the user's vmap returned, with the
\* out_dims it returned, after the scope of lower() has been left
WrappedAfterRestore(k, L) ==
    /\ k > 2
    /\ log[k].tag = "batched"
    /\ log[k - 1].ev = "restore" /\ log[k - 1].lvl = L /\ log[k - 1].depth = L
    /\ log[k].depth = L
    /\ log[k - 2].ev = "vmap_return" /\ log[k - 2].lvl = L /\ log[k - 2].depth = L - 1
    /\ log[k].args = log[k - 2].args
    /\ LET flat == BroadcastToAndFlatten(OutDims(log[k - 2].tag, log[k - 2].aux),
                                         Len(log[k].args))
       IN  /\ flat.ok
           /\ Len(log[k].aux) = Len(log[k].args)
           /\ \A j \in DOMAIN log[k].args :
                  IF flat.dims[j] = NoneDim
                      THEN log[k].aux[j] = log[k].args[j]
                      ELSE heap[log[k].aux[j]] =
                               BatchedWrapper(log[k].args[j], flat.dims[j], L)

\* C14: Vmap general path protocol. When the function has a vmap and at least one
\* operand is batched at the level L of the current Vmap interpreter, the rule invokes
\* the user's vmap exactly once, with interpreter L lowered, with the batch size of the
\* interpreter, the in_dims of the operands and the operands unwrapped at L; the rule
\* invokes the entry point not at all; and the outputs are wrapped at level L with the
\* returned out_dims only after the lowered scope has been left.
C14_VmapGeneralPath ==
    \A i \in DOMAIN log :
        (VmapEntry(i) /\ HasVmap(fn) /\ ~NothingBatched(i, InterpAt(i).level)) =>
            LET L == InterpAt(i).level
            IN  /\ i + 4 <= Len(log) => GeneralPathCall(i, L)
                /\ \A k \in Where("vmap") : log[k].lvl = L => k = i + 4
                /\ Finished => \E k \in Where("vmap") : log[k].lvl = L
                /\ \A k \in Where("entry") : k <= i
                /\ \A k \in Where("wrap") : log[k].lvl = L => WrappedAfterRestore(k, L)
                /\ \A k \in Where("return") :
                       log[k].lvl = L =>
                           /\ log[k].tag = "vmap_general"
                           /\ log[k - 1].ev = "wrap" /\ log[k - 1].lvl = L

\* under Vmap (level 2) over Grad, an operand batched with batch size 3 goes through
\* the user's vmap at depth 1 and the new output comes back batched at level 2
C14_Witness ==
    /\ status = "done"
    /\ Len(pre.interp) = 2
    /\ pre.interp[2].kind = "Vmap"
    /\ pre.interp[2].batch_size = 3
    /\ \E k \in Where("vmap") : log[k].depth = 1 /\ log[k].n = 3 /\ \E j \in DOMAIN log[k].aux : log[k].aux[j] # NoneDim
    /\ \E k \in Where("wrap") :
           /\ log[k].lvl = 2 /\ log[k].tag = "batched"
           /\ \E j \in DOMAIN log[k].aux :
                  IsTensor(log[k].aux[j]) /\ log[k].aux[j] # log[k].args[j]
    /\ Len(ret) = 2

----------------------------------------------------------------------------
(* C15 *)

\* the out_dims the user's vmap returned at log entry k, fitted to the outputs
FlatOutDims(k) ==
    BroadcastToAndFlatten(OutDims(log[k].tag, log[k].aux), Len(log[k].args))

\* C15: out_dims broadcast and structural mismatch. In the Vmap general path, a single
\* out_dims returned by the user's vmap is the batch dimension of every leaf of the
\* outputs; when the returned out_dims cannot be broadcast to the structure of the
\* outputs the call fails with an error raised after the scope of lower() has been left
\* (the stack is as the rule found it), nothing is wrapped or returned, the user's vmap
\* is not called again, and the call ends failed with the stack it started with.
C15_OutDims ==
    \A k \in Where("vmap_return") :
        LET L == log[k].lvl
            flat == FlatOutDims(k)
        IN  /\ (log[k].tag = "leaf" /\ k + 2 <= Len(log) /\ log[k + 2].ev = "wrap") =>
                   /\ Len(log[k + 2].aux) = Len(log[k].args)
                   /\ \A j \in DOMAIN log[k].args :
                          IF log[k].aux[1] = NoneDim
                              THEN log[k + 2].aux[j] = log[k].args[j]
                              ELSE heap[log[k + 2].aux[j]] =
                                       BatchedWrapper(log[k].args[j], log[k].aux[1], L)
            /\ (log[k].tag = "leaf" /\ (log[k].aux[1] = NoneDim
                                         \/ \A j \in DOMAIN log[k].args : IsTensor(log[k].args[j]))
                    /\ k + 2 <= Len(log)) =>
                   log[k + 2].ev = "wrap"
            /\ ~flat.ok =>
                   /\ k + 2 <= Len(log) =>
                          /\ log[k + 1].ev = "restore" /\ log[k + 1].depth = L
                          /\ log[k + 2].ev = "raise" /\ log[k + 2].depth = L
                          /\ err.type = "AssertionError"
                          /\ status \in {"raising", "failed"}
                   /\ OnlyRaisedAfter(k + 1)
                   /\ Cardinality({ i \in Where("vmap") : log[i].lvl = L }) = 1
                   /\ \A i \in Where("wrap") \cup Where("return") : log[i].lvl # L
                   /\ ret = <<>>
                   /\ status # "done"
                   /\ Finished => (status = "failed" /\ interp = pre.interp /\ frames = <<>>)

\* one out_dims for two new output leaves: both come back batched at dimension 0
C15_Witness ==
    /\ status = "done"
    /\ \E k \in Where("vmap_return") :
           /\ log[k].tag = "leaf"
           /\ log[k].aux = <<0>>
           /\ Len(log[k].args) = 2
           /\ log[k].args[1] # log[k].args[2]
           /\ log[k + 2].ev = "wrap"
           /\ \A j \in 1..2 : heap[ret[j]] = BatchedWrapper(log[k].args[j], 0, log[k].lvl)

\* out_dims for two leaves, one output leaf: the call has failed and the stack is back
C15_WitnessMismatch ==
    /\ status = "failed"
    /\ err.type = "AssertionError"
    /\ Len(pre.interp) = 2
    /\ interp = pre.interp
    /\ \E k \in Where("vmap_return") :
           /\ log[k].tag = "tuple"
           /\ Len(log[k].aux) = 2
           /\ Len(log[k].args) = 1
           /\ log[k].lvl = 1

----------------------------------------------------------------------------
(* C16 *)

\* the log entry where the rule of level L unwrapped its operands
UnwrapOf(L) == CHOOSE u \in Where("unwrap") : log[u].lvl = L

\* C16: Identity-Preservation Helper contract. wrap_outputs_maintaining_identity
\* returns as many leaves as the outputs have; a leaf that is no tensor is returned as it
\* is; a tensor leaf that is the same object as an unwrapped input is returned as the
\* original input at a position of that unwrapped input; every other tensor leaf is
\* returned in a wrapper of the level made for that leaf alone. Objects are matched by
\* identity: an output whose contents equal those of an unwrapped input, but which is
\* another object, is wrapped.
C16_WrapOutputsContract ==
    \A k \in Where("wrap") :
        log[k].tag = "grad" =>
            LET L == log[k].lvl
                outputs == log[k].args
                result == log[k].aux
                unwrapped_inputs == log[UnwrapOf(L)].aux
                orig_inputs == log[UnwrapOf(L)].args
            IN  /\ \E u \in Where("unwrap") : log[u].lvl = L /\ u < k
                /\ Len(unwrapped_inputs) = Len(orig_inputs)
                /\ Len(result) = Len(outputs)
                /\ \A j \in DOMAIN outputs :
                       IF ~IsTensor(outputs[j])
                           THEN result[j] = outputs[j]
                       ELSE IF outputs[j] \in Range(unwrapped_inputs)
                           THEN \E i \in DOMAIN orig_inputs :
                                    unwrapped_inputs[i] = outputs[j] /\ result[j] = orig_inputs[i]
                       ELSE /\ IsTensor(result[j])
                            /\ heap[result[j]] = GradWrapper(outputs[j], L)
                            /\ result[j] \notin Range(orig_inputs)
                            /\ result[j] \notin Range(outputs)
                            /\ \A j2 \in DOMAIN result : j2 # j => result[j2] # result[j]

\* forward returns a new tensor with the contents of its operand and the operand itself:
\* the first is wrapped, the second is the caller's operand
C16_Witness ==
    /\ status = "done"
    /\ Len(pre.interp) = 1
    /\ pre.interp[1].kind = "Grad"
    /\ \E k \in Where("wrap") :
           LET u == UnwrapOf(1)
           IN  /\ log[k].tag = "grad"
               /\ Len(log[k].args) = 2
               /\ Len(log[u].args) = 2
               /\ IsTensor(log[u].args[1])
               /\ log[u].aux[1] # log[u].args[1]
               /\ IsTensor(log[k].args[1])
               /\ log[k].args[1] \notin Range(log[u].aux)
               /\ heap[log[k].args[1]] = heap[log[u].aux[1]]
               /\ heap[log[k].aux[1]] = GradWrapper(log[k].args[1], 1)
               /\ log[k].args[2] = log[u].aux[1]
               /\ log[k].aux[2] = log[u].args[1]
               /\ NonTensor \in Range(log[u].args)

----------------------------------------------------------------------------
(* C17 *)

\* log entry k is the return of the general path of the Vmap rule; the wrap before it
\* holds the unwrapped outputs and the wrapped ones
GeneralReturn(k) == log[k].ev = "return" /\ log[k].tag = "vmap_general"

\* C17 (as amended): in the Vmap general path preserve_object_identity decides aliasing
\* by comparing the unwrapped outputs against the unwrapped inputs: a tensor leaf is
\* returned as the original input at a position of the unwrapped input exactly when the
\* unwrapped output at that leaf is the same object as that unwrapped input; every other
\* leaf is returned as wrap_batched made it.
C17_AliasingByUnwrapped ==
    \A k \in DOMAIN log :
        GeneralReturn(k) =>
            LET wrapped == log[k - 1].aux
                unwrapped_outputs == log[k - 1].args
                inputs == log[UnwrapOf(log[k].lvl)].args
                unwrapped_inputs == log[UnwrapOf(log[k].lvl)].aux
                result == log[k].args
            IN  /\ log[k - 1].ev = "wrap"
                /\ Len(result) = Len(wrapped)
                /\ \A j \in DOMAIN result :
                       IF IsTensor(wrapped[j]) /\ unwrapped_outputs[j] \in Range(unwrapped_inputs)
                           THEN \E i \in DOMAIN inputs :
                                    /\ unwrapped_inputs[i] = unwrapped_outputs[j]
                                    /\ result[j] = inputs[i]
                           ELSE result[j] = wrapped[j]

\* C17 as it was claimed: a leaf is replaced by an original input exactly when the
\* re-wrapped output is the same object as that wrapped input
C17_AliasingByWrapped ==
    \A k \in DOMAIN log :
        GeneralReturn(k) =>
            LET wrapped == log[k - 1].aux
                inputs == log[UnwrapOf(log[k].lvl)].args
                result == log[k].args
            IN  \A j \in DOMAIN result :
                    IsTensor(result[j]) =>
                        ((result[j] \in Range(inputs)) <=> (wrapped[j] \in Range(inputs)))

\* the user's vmap returns the unwrapped operand with out_dims 0 and a new tensor: the
\* first leaf is re-wrapped in a new object and returned as the caller's operand, the
\* second is returned as it was wrapped
C17_Witness ==
    /\ status = "done"
    /\ \E k \in DOMAIN log :
           /\ GeneralReturn(k)
           /\ Len(log[k].args) = 2
           /\ LET wrapped == log[k - 1].aux
                  unwrapped_outputs == log[k - 1].args
                  inputs == log[UnwrapOf(log[k].lvl)].args
                  unwrapped_inputs == log[UnwrapOf(log[k].lvl)].aux
                  result == log[k].args
              IN  /\ IsTensor(wrapped[1])
                  /\ wrapped[1] \notin Range(inputs)
                  /\ heap[wrapped[1]].wkind = "batched"
                  /\ unwrapped_outputs[1] \in Range(unwrapped_inputs)
                  /\ result[1] \in Range(inputs)
                  /\ result[1] # wrapped[1]
                  /\ IsTensor(wrapped[2])
                  /\ unwrapped_outputs[2] \notin Range(unwrapped_inputs)
                  /\ result[2] = wrapped[2]

----------------------------------------------------------------------------
(* C18 *)

\* C18: Capability check precedes the fast path. Under a current Vmap interpreter a
\* function without a vmap fails with the missing-capability error also when no operand
\* is batched at the level, when there is no operand and when no operand is a tensor:
\* the rule does not lower the interpreter, does not invoke the entry point again and
\* returns nothing.
C18_CheckBeforeFastPath ==
    \A i \in DOMAIN log :
        (VmapEntry(i) /\ ~fn.hasVmap /\ NothingBatched(i, InterpAt(i).level)) =>
            LET L == InterpAt(i).level
            IN  /\ \A k \in Where("entry") : k <= i
                /\ \A k \in Where("lower") \cup Where("return") \cup Where("apply") :
                       k < i /\ log[k].lvl # L
                /\ i + 2 <= Len(log) =>
                       /\ log[i + 1].ev = "rule" /\ log[i + 1].lvl = L
                       /\ log[i + 2].ev = "raise" /\ log[i + 2].tag = "no_vmap_rule"
                       /\ err = NoVmapRuleError(fn)
                /\ Finished => status = "failed"

\* a call with no operand under Vmap
C18_Witness ==
    /\ status = "failed"
    /\ pre.ops = <<>>
    /\ Len(pre.interp) = 1
    /\ pre.interp[1].kind = "Vmap"
    /\ ~fn.hasVmap
    /\ err = NoVmapRuleError(fn)
    /\ Where("entry") = {1}

\* a call with a non-tensor and a tensor that is not batched at the level
C18_WitnessUnbatched ==
    /\ status = "failed"
    /\ Len(pre.ops) = 2
    /\ pre.ops[1] = NonTensor
    /\ IsTensor(pre.ops[2])
    /\ heap[pre.ops[2]].wkind = "raw"
    /\ Len(pre.interp) = 1
    /\ pre.interp[1].kind = "Vmap"
    /\ err = NoVmapRuleError(fn)
    /\ Where("entry") = {1}

----------------------------------------------------------------------------
(* C19 *)

\* the positions of the flattened unwrapped inputs where the object x is
PositionsOf(unwrapped_inputs, x) == { i \in DOMAIN unwrapped_inputs : unwrapped_inputs[i] = x }

LastPosition(unwrapped_inputs, x) ==
    CHOOSE i \in PositionsOf(unwrapped_inputs, x) :
        \A j \in PositionsOf(unwrapped_inputs, x) : j <= i

\* C19: Duplicate-alias resolution. In wrap_outputs_maintaining_identity and in
\* preserve_object_identity, a tensor output leaf that is the same object as an
\* unwrapped input is returned as the original input at the LAST position where that
\* unwrapped input is, whatever the original inputs at the earlier positions are.
C19_LastAliasWins ==
    /\ \A k \in Where("wrap") :
           log[k].tag = "grad" =>
               LET outputs == log[k].args
                   unwrapped_inputs == log[UnwrapOf(log[k].lvl)].aux
                   orig_inputs == log[UnwrapOf(log[k].lvl)].args
               IN  \A j \in DOMAIN outputs :
                       (IsTensor(outputs[j]) /\ PositionsOf(unwrapped_inputs, outputs[j]) # {}) =>
                           log[k].aux[j] = orig_inputs[LastPosition(unwrapped_inputs, outputs[j])]
    /\ \A k \in DOMAIN log :
           GeneralReturn(k) =>
               LET unwrapped_outputs == log[k - 1].args
                   unwrapped_inputs == log[UnwrapOf(log[k].lvl)].aux
                   inputs == log[UnwrapOf(log[k].lvl)].args
               IN  \A j \in DOMAIN unwrapped_outputs :
                       (IsTensor(unwrapped_outputs[j])
                            /\ PositionsOf(unwrapped_inputs, unwrapped_outputs[j]) # {}) =>
                           log[k].args[j] = inputs[LastPosition(unwrapped_inputs, unwrapped_outputs[j])]

\* under Grad the operands are a wrapper and the tensor it wraps: both unwrap to the
\* tensor, and forward returning it gives the caller the second operand
C19_Witness ==
    /\ status = "done"
    /\ Len(pre.interp) = 1
    /\ pre.interp[1].kind = "Grad"
    /\ Len(pre.ops) = 2
    /\ IsTensor(pre.ops[1]) /\ IsTensor(pre.ops[2])
    /\ pre.ops[1] # pre.ops[2]
    /\ heap[pre.ops[1]].wkind = "grad"
    /\ heap[pre.ops[1]].inner = pre.ops[2]
    /\ \E k \in Where("wrap") :
           /\ log[UnwrapOf(1)].aux = <<pre.ops[2], pre.ops[2]>>
           /\ log[k].args = <<pre.ops[2]>>
           /\ log[k].aux = <<pre.ops[2]>>

\* under Vmap the operands are a tensor and a batched wrapper of it: the user's vmap
\* returning the tensor gives the caller the wrapper
C19_WitnessVmap ==
    /\ status = "done"
    /\ Len(pre.interp) = 1
    /\ pre.interp[1].kind = "Vmap"
    /\ Len(pre.ops) = 2
    /\ IsTensor(pre.ops[1]) /\ IsTensor(pre.ops[2])
    /\ heap[pre.ops[2]].wkind = "batched"
    /\ heap[pre.ops[2]].inner = pre.ops[1]
    /\ \E k \in DOMAIN log :
           /\ GeneralReturn(k)
           /\ log[k - 1].args = <<pre.ops[1]>>
           /\ log[k].args = <<pre.ops[2]>>

----------------------------------------------------------------------------
(* C20 *)

\* output leaf j of the user's vmap (the outputs are at log entry k - 1) is the same
\* object as an unwrapped operand
AliasedLeaf(k, j) ==
    /\ IsTensor(log[k - 1].args[j])
    /\ log[k - 1].args[j] \in Range(log[UnwrapOf(log[k].lvl)].aux)

\* what a caller can tell of a result: a leaf that is an operand or the unwrapped output
\* itself is that object, any other leaf is a new wrapper, known by its contents
ResultView(h, result, unwrapped_outputs, inputs) ==
    [j \in DOMAIN result |->
        IF result[j] = unwrapped_outputs[j] \/ result[j] \in Range(inputs) \/ ~IsTensor(result[j])
            THEN <<"object", result[j]>>
            ELSE <<"wrapper", h[result[j]]>>]

\* what lines 230-233 return for the outputs at log entry k - 1 with the out_dims od
ResultWith(k, od) ==
    LET L == log[k].lvl
        unwrapped_outputs == log[k - 1].args
        inputs == log[UnwrapOf(L)].args
        unwrapped_inputs == log[UnwrapOf(L)].aux
        w == wrap_batched(heap, unwrapped_outputs, od, L)
    IN  [err |-> w.err,
         view |-> ResultView(w.heap,
                             preserve_object_identity(w.result, inputs,
                                                      unwrapped_outputs, unwrapped_inputs),
                             unwrapped_outputs, inputs)]

\* od fits the outputs and differs from the out_dims returned at log entry k - 3 only in
\* the entries of leaves that are unwrapped operands
DiffersAtAliased(k, od) ==
    LET n == Len(log[k - 1].args)
        flat == BroadcastToAndFlatten(od, n)
    IN  /\ flat.ok
        /\ \A j \in 1..n : flat.dims[j] # FlatOutDims(k - 3).dims[j] => AliasedLeaf(k, j)

\* C20: Aliased outputs ignore out_dims. In the Vmap general path an output leaf that
\* is the same object as an unwrapped operand is returned as the original operand
\* whatever batch dimension the out_dims give that leaf; the call returns the same
\* result for any other out_dims that fit the outputs and differ only in the entries of
\* such leaves; and out_dims that do not fit the outputs make the call fail also when
\* every output leaf is an unwrapped operand.
C20_AliasedIgnoreOutDims ==
    /\ \A k \in DOMAIN log :
           GeneralReturn(k) =>
               /\ log[k - 3].ev = "vmap_return"
               /\ \A j \in DOMAIN log[k].args :
                      AliasedLeaf(k, j) =>
                          log[k].args[j] \in Range(log[UnwrapOf(log[k].lvl)].args)
               /\ \A od \in OutDimsChoices :
                      DiffersAtAliased(k, od) =>
                          /\ ResultWith(k, od).err = "none"
                          /\ ResultWith(k, od).view =
                                 ResultView(heap, log[k].args, log[k - 1].args,
                                            log[UnwrapOf(log[k].lvl)].args)
    /\ \A k \in Where("vmap_return") :
           (~FlatOutDims(k).ok
                /\ \A j \in DOMAIN log[k].args :
                       /\ IsTensor(log[k].args[j])
                       /\ log[k].args[j] \in Range(log[UnwrapOf(log[k].lvl)].aux)) =>
               /\ k + 2 <= Len(log) => log[k + 2].ev = "raise"
               /\ \A i \in Where("return") : log[i].lvl # log[k].lvl
               /\ status # "done"

\* the operand is batched at dimension 0; the user's vmap returns the unwrapped operand
\* and a new tensor with out_dims (None, 0): the caller gets the operand, batched as it
\* was, and the new tensor batched
C20_Witness ==
    /\ status = "done"
    /\ \E k \in DOMAIN log :
           /\ GeneralReturn(k)
           /\ Len(log[k].args) = 2
           /\ log[k - 3].tag = "tuple"
           /\ log[k - 3].aux = <<NoneDim, 0>>
           /\ AliasedLeaf(k, 1)
           /\ ~AliasedLeaf(k, 2)
           /\ IsTensor(log[k].args[1])
           /\ heap[log[k].args[1]].wkind = "batched"
           /\ log[k].args[1] \in Range(pre.ops)
           /\ DiffersAtAliased(k, OutDims("leaf", <<0>>))

\* every output leaf is an unwrapped operand and the out_dims are one too many
C20_WitnessMismatch ==
    /\ status = "failed"
    /\ err.type = "AssertionError"
    /\ \E k \in Where("vmap_return") :
           /\ Len(log[k].args) = 1
           /\ Len(log[k].aux) = 2
           /\ log[k].tag = "tuple"
           /\ IsTensor(log[k].args[1])
           /\ log[k].args[1] \in Range(log[UnwrapOf(log[k].lvl)].aux)

====
